---- MODULE Spec2Model ----
(***************************************************************************)
(* lisel: select lines of a TARGET stream by an INDEX stream.              *)
(*                                                                         *)
(* The model follows src/src/lineparse.rs (the range grammar),             *)
(* src/src/index.rs (the predicate Type) and src/src/select.rs (the        *)
(* iterator Select).  Text is a sequence of one-character strings, a line  *)
(* as read_line returns it keeps its terminator.  A u32 is held as two     *)
(* 16-bit limbs: TLC's integers are 32-bit signed and cannot hold          *)
(* u32::MAX.                                                               *)
(***************************************************************************)
EXTENDS Integers, Sequences, FiniteSets, TLC

(***************************************************************************)
(* Bounds of the model.                                                    *)
(***************************************************************************)
\* longest target stream, in lines
MaxTarget == 3
\* longest index stream, in lines
MaxIndex == 3
\* calls of next() made after the iterator has halted
MaxExtraCalls == 2
\* longest text handed to the grammar, in characters
MaxText == 4
\* largest line number a predicate is probed with
MaxProbe == 4

(***************************************************************************)
(* Characters and text.                                                    *)
(***************************************************************************)
LF == "\n"
CR == "\r"
Digits == {"0", "1", "2", "3", "4", "5", "6", "7", "8", "9"}

DigitVal(c) ==
    CASE c = "0" -> 0 [] c = "1" -> 1 [] c = "2" -> 2 [] c = "3" -> 3
      [] c = "4" -> 4 [] c = "5" -> 5 [] c = "6" -> 6 [] c = "7" -> 7
      [] c = "8" -> 8 [] c = "9" -> 9

Drop(s, k) == SubSeq(s, k + 1, Len(s))
Take(s, k) == SubSeq(s, 1, k)

(***************************************************************************)
(* u32: value hi * 2^16 + lo.                                              *)
(***************************************************************************)
Limb == 2 ^ 16
U32(n) == [hi |-> n \div Limb, lo |-> n % Limb]
U32Min == [hi |-> 0, lo |-> 0]
U32Max == [hi |-> Limb - 1, lo |-> Limb - 1]
U32Lt(a, b) == a.hi < b.hi \/ (a.hi = b.hi /\ a.lo < b.lo)
U32Le(a, b) == a.hi < b.hi \/ (a.hi = b.hi /\ a.lo <= b.lo)

\* str::parse::<u32>() of a digit run: the value, or Overflow when it
\* exceeds u32::MAX.
Overflow == [hi |-> Limb, lo |-> 0]
RECURSIVE ParseU32Acc(_, _)
ParseU32Acc(acc, ds) ==
    IF ds = <<>> THEN acc
    ELSE LET lo == acc.lo * 10 + DigitVal(Head(ds))
             hi == acc.hi * 10 + lo \div Limb
         IN  IF hi >= Limb THEN Overflow
             ELSE ParseU32Acc([hi |-> hi, lo |-> lo % Limb], Tail(ds))
ParseU32(ds) == ParseU32Acc(U32Min, ds)

(***************************************************************************)
(* lineparse.rs: the nom combinators and the grammar.  A parser returns    *)
(* Ok(rest, value), a recoverable Err, or Panic (the process aborts).      *)
(***************************************************************************)
NomOk(rest, v) == [kind |-> "Ok", rest |-> rest, val |-> v]
NomErr == [kind |-> "Err"]
NomPanic == [kind |-> "Panic"]

Single(n) == [tag |-> "Single", n |-> n]
Interval(s, e) == [tag |-> "Interval", s |-> s, e |-> e]

\* many1(one_of("0123456789")): the length of the leading digit run
RECURSIVE DigitRun(_)
DigitRun(input) ==
    IF input # <<>> /\ Head(input) \in Digits THEN 1 + DigitRun(Tail(input)) ELSE 0

natural(input) ==
    LET k == DigitRun(input)
        v == ParseU32(Take(input, k))
    IN  IF k = 0 THEN NomErr
        ELSE IF v = Overflow THEN NomPanic
        ELSE IF U32Lt(v, U32(1)) THEN NomErr
        ELSE NomOk(Drop(input, k), v)

\* tag(","): only the comma is ever used as a tag
tag(t, input) ==
    IF input # <<>> /\ Head(input) = t THEN NomOk(Tail(input), t) ELSE NomErr

single(input) ==
    LET r == natural(input)
    IN  IF r.kind = "Ok" THEN NomOk(r.rest, Single(r.val)) ELSE r

interval_left_open(input) ==
    LET c == tag(",", input)
    IN  IF c.kind # "Ok" THEN c
        ELSE LET r == natural(c.rest)
             IN  IF r.kind = "Ok" THEN NomOk(r.rest, Interval(U32Min, r.val)) ELSE r

interval_right_open(input) ==
    LET r == natural(input)
    IN  IF r.kind # "Ok" THEN r
        ELSE LET c == tag(",", r.rest)
             IN  IF c.kind = "Ok" THEN NomOk(c.rest, Interval(r.val, U32Max)) ELSE c

interval(input) ==
    LET l == natural(input)
    IN  IF l.kind # "Ok" THEN l
        ELSE LET c == tag(",", l.rest)
             IN  IF c.kind # "Ok" THEN c
                 ELSE LET r == natural(c.rest)
                      IN  IF r.kind = "Ok"
                          THEN NomOk(r.rest, Interval(l.val, r.val))
                          ELSE r

\* alt((a, b)): the first alternative that does not fail recoverably
Alt(a, b) == IF a.kind = "Err" THEN b ELSE a

range_single_first(input) ==
    Alt(single(input),
        Alt(interval(input),
            Alt(interval_left_open(input), interval_right_open(input))))

range(input) ==
    Alt(interval(input),
        Alt(interval_left_open(input),
            Alt(interval_right_open(input), single(input))))

(***************************************************************************)
(* index.rs: the predicate Type.  A regex is one of the patterns the       *)
(* repository constructs; IsMatch gives Regex::is_match for them.          *)
(***************************************************************************)
ReAny == ".+"
ReEmpty == "^$"
ReA == "a"
Patterns == {ReAny, ReEmpty, ReA}

Chars(s) == {s[i] : i \in 1..Len(s)}

IsMatch(re, line) ==
    CASE re = ReAny -> \E c \in Chars(line) : c # LF
      [] re = ReEmpty -> line = <<>>
      [] re = ReA -> "a" \in Chars(line)

Re(re) == [tag |-> "Re", re |-> re]
Number(r) == [tag |-> "Number", r |-> r]
NoType == [tag |-> "None"]

TypeSelect_open_end(t, linum, line) ==
    IF t.tag = "Number"
    THEN IF t.r.tag = "Single" THEN t.r.n = linum
         ELSE U32Le(t.r.s, linum) /\ U32Lt(linum, t.r.e)
    ELSE IsMatch(t.re, line)

TypeSelect_unordered(t, linum, line) ==
    IF t.tag = "Number"
    THEN IF t.r.tag = "Single" THEN t.r.n = linum
         ELSE \/ U32Le(t.r.s, linum) /\ U32Le(linum, t.r.e)
              \/ U32Le(t.r.e, linum) /\ U32Le(linum, t.r.s)
    ELSE IsMatch(t.re, line)

\* Type::select
TypeSelect(t, linum, line) ==
    IF t.tag = "Number"
    THEN IF t.r.tag = "Single" THEN t.r.n = linum
         ELSE U32Le(t.r.s, linum) /\ U32Le(linum, t.r.e)
    ELSE IsMatch(t.re, line)

\* Type::start
TypeStart(t) ==
    IF t.tag = "Re" THEN U32Min
    ELSE IF t.r.tag = "Single" THEN t.r.n ELSE t.r.s

\* Type::end
TypeEnd(t) ==
    IF t.tag = "Re" THEN U32Max
    ELSE IF t.r.tag = "Single" THEN t.r.n ELSE t.r.e

(***************************************************************************)
(* str::rstrip (its file is not among the sources): strips the trailing    *)
(* newline and carriage-return characters of a line.                       *)
(***************************************************************************)
RECURSIVE rstrip(_)
rstrip(line) ==
    IF line # <<>> /\ line[Len(line)] \in {LF, CR}
    THEN rstrip(Take(line, Len(line) - 1))
    ELSE line

(***************************************************************************)
(* A stream (BufRead) is the sequence of outcomes its coming read_line     *)
(* calls have: a line with its terminator, or an IO failure.  Past the     *)
(* last outcome every read returns Ok(0), the end of the stream.           *)
(***************************************************************************)
ReadOk(line) == [io |-> "Ok", line |-> line]
ReadFail == [io |-> "Err"]

\* BufRead::read_line into an empty String
read_line(stream) ==
    IF stream = <<>>
    THEN [res |-> "Ok", n |-> 0, line |-> <<>>, stream |-> stream]
    ELSE IF Head(stream).io = "Err"
    THEN [res |-> "Err", n |-> 0, line |-> <<>>, stream |-> Tail(stream)]
    ELSE [res |-> "Ok", n |-> Len(Head(stream).line), line |-> Head(stream).line,
          stream |-> Tail(stream)]

(***************************************************************************)
(* select.rs: SelectError, SelectResult and the items of the iterator.     *)
(* An item records in `at` the target line number it was produced at (the  *)
(* number the debug log prints); the program's item holds only the line or *)
(* the error.                                                              *)
(***************************************************************************)
Io == [kind |-> "Io"]
Parse(linum, index, line) ==
    [kind |-> "Parse", target |-> linum, index |-> index, line |-> line]

Error(x) == [tag |-> "Error", err |-> x]
EndOfIndex == [tag |-> "EndOfIndex"]
Accept == [tag |-> "Accept"]
Deny == [tag |-> "Deny"]
\* not a SelectResult: range() panicked inside select
Panicked == [tag |-> "Panic"]

None == [tag |-> "None"]
SomeOk(line, at) == [tag |-> "Ok", line |-> line, at |-> at]
SomeErr(x, at) == [tag |-> "Err", err |-> x, at |-> at]
\* not an item: the call never returned
Abort(at) == [tag |-> "Panic", at |-> at]

\* Select::new; target_reads and index_reads count the read_line calls made
\* on each stream
New(target_stream, index_stream, index_type, invert_match) ==
    [index_type |-> index_type,
     invert_match |-> invert_match,
     target_stream |-> target_stream,
     target_stream_linum |-> 0,
     index_stream |-> index_stream,
     index_stream_linum |-> 0,
     eoi |-> FALSE,
     target_reads |-> 0,
     index_reads |-> 0]

\* Select::disable
disable(self) == [self EXCEPT !.eoi = TRUE]

end_of_index_ignores_invert(self) == EndOfIndex

end_of_index_deny(self) == IF self.invert_match THEN Deny ELSE EndOfIndex

\* the two Ok(0) arms of select: the end of the index stream
end_of_index(self) == IF self.invert_match THEN Accept ELSE EndOfIndex

\* the arms "select(..) != self.invert_match => Accept" and "=> Deny"
verdict(self, matched) == IF matched # self.invert_match THEN Accept ELSE Deny

read_index_counts_lines_only(self) ==
    LET rd == read_line(self.index_stream)
    IN  [self |-> [self EXCEPT !.index_stream_linum = IF rd.n > 0 THEN @ + 1 ELSE @,
                               !.index_stream = rd.stream,
                               !.index_reads = @ + 1],
         res |-> rd.res,
         n |-> rd.n,
         index_line |-> rstrip(rd.line)]

read_index_keeps_terminator(self) ==
    LET rd == read_line(self.index_stream)
    IN  [self |-> [self EXCEPT !.index_stream_linum = @ + 1,
                               !.index_stream = rd.stream,
                               !.index_reads = @ + 1],
         res |-> rd.res,
         n |-> rd.n,
         index_line |-> rd.line]

\* the read of the next index line in select: counter, read_line, rstrip
read_index(self) ==
    LET rd == read_line(self.index_stream)
    IN  [self |-> [self EXCEPT !.index_stream_linum = @ + 1,
                               !.index_stream = rd.stream,
                               !.index_reads = @ + 1],
         res |-> rd.res,
         n |-> rd.n,
         index_line |-> rstrip(rd.line)]

(***************************************************************************)
(* Select::select.  Each arm that works on the outcome of a call takes     *)
(* that outcome as a parameter.                                            *)
(***************************************************************************)
RECURSIVE select(_, _)

select_re_consumes_predicate(self, rd) ==
    [self |-> [rd.self EXCEPT !.index_type = NoType],
     r |-> IF rd.res = "Err" THEN Error(Io)
           ELSE IF rd.n = 0 THEN end_of_index(self)
           ELSE verdict(self, TypeSelect(self.index_type, U32(0), rd.index_line))]

select_re_reads_ahead(self, rd) ==
    [self |-> read_index(rd.self).self,
     r |-> IF rd.res = "Err" THEN Error(Io)
           ELSE IF rd.n = 0 THEN end_of_index(self)
           ELSE verdict(self, TypeSelect(self.index_type, U32(0), rd.index_line))]

\* the arm Some(Type::Re), on the index line read
select_re(self, rd) ==
    [self |-> rd.self,
     r |-> IF rd.res = "Err" THEN Error(Io)
           ELSE IF rd.n = 0 THEN end_of_index(self)
           ELSE verdict(self, TypeSelect(self.index_type, U32(0), rd.index_line))]

select_parsed_skips_line(self, linum, index_line, p) ==
    IF p.kind = "Panic" THEN [self |-> self, r |-> Panicked]
    ELSE IF p.kind = "Err"
    THEN [self |-> self,
          r |-> Error(Parse(linum, self.index_stream_linum, index_line))]
    ELSE [self |-> [self EXCEPT !.index_type = Number(p.val)], r |-> Deny]

\* the arm None, on the outcome p of range(&index_line)
select_parsed(self, linum, index_line, p) ==
    IF p.kind = "Panic" THEN [self |-> self, r |-> Panicked]
    ELSE IF p.kind = "Err"
    THEN [self |-> self,
          r |-> Error(Parse(linum, self.index_stream_linum, index_line))]
    ELSE select([self EXCEPT !.index_type = Number(p.val)], linum)

select_none_blank_denies(rd, linum) ==
    IF rd.res = "Err" THEN [self |-> rd.self, r |-> Error(Io)]
    ELSE IF rd.n = 0 THEN [self |-> rd.self, r |-> end_of_index(rd.self)]
    ELSE IF rd.index_line = <<>> THEN [self |-> rd.self, r |-> Deny]
    ELSE select_parsed(rd.self, linum, rd.index_line, range(rd.index_line))

\* the arm None, on the index line read
select_none(rd, linum) ==
    IF rd.res = "Err" THEN [self |-> rd.self, r |-> Error(Io)]
    ELSE IF rd.n = 0 THEN [self |-> rd.self, r |-> end_of_index(rd.self)]
    ELSE IF rd.index_line = <<>> THEN select(rd.self, linum)
    ELSE select_parsed(rd.self, linum, rd.index_line, range(rd.index_line))

select_exhausts_early(self, linum) ==
    IF self.index_type.tag = "Re" THEN select_re(self, read_index(self))
    ELSE IF self.index_type.tag = "Number"
    THEN IF U32Le(TypeEnd(self.index_type), U32(linum))
         THEN select([self EXCEPT !.index_type = NoType], linum)
         ELSE [self |-> self,
               r |-> verdict(self, TypeSelect(self.index_type, U32(linum), <<>>))]
    ELSE select_none(read_index(self), linum)

select_reads_while_loaded(self, linum) ==
    IF self.index_type.tag = "Re" THEN select_re(self, read_index(self))
    ELSE IF self.index_type.tag = "Number"
    THEN IF U32Lt(TypeEnd(self.index_type), U32(linum))
         THEN select([self EXCEPT !.index_type = NoType], linum)
         ELSE [self |-> read_index(self).self,
               r |-> verdict(self, TypeSelect(self.index_type, U32(linum), <<>>))]
    ELSE select_none(read_index(self), linum)

select(self, linum) ==
    IF self.index_type.tag = "Re" THEN select_re(self, read_index(self))
    ELSE IF self.index_type.tag = "Number"
    THEN IF U32Lt(TypeEnd(self.index_type), U32(linum))
         THEN select([self EXCEPT !.index_type = NoType], linum)
         ELSE [self |-> self,
               r |-> verdict(self, TypeSelect(self.index_type, U32(linum), <<>>))]
    ELSE select_none(read_index(self), linum)

\* the read of the next target line in next: counter, read_line
read_target(self) ==
    LET rd == read_line(self.target_stream)
    IN  [self |-> [self EXCEPT !.target_stream_linum = @ + 1,
                               !.target_stream = rd.stream,
                               !.target_reads = @ + 1],
         res |-> rd.res,
         n |-> rd.n,
         line |-> rd.line]

(***************************************************************************)
(* Iterator::next                                                          *)
(***************************************************************************)
RECURSIVE next(_)

next_selected_end_of_index_goes_on(line, at, d) ==
    CASE d.r.tag = "Error" -> [self |-> disable(d.self), item |-> SomeErr(d.r.err, at)]
      [] d.r.tag = "EndOfIndex" -> next(d.self)
      [] d.r.tag = "Accept" -> [self |-> d.self, item |-> SomeOk(line, at)]
      [] d.r.tag = "Deny" -> next(d.self)
      [] d.r.tag = "Panic" -> [self |-> d.self, item |-> Abort(at)]

next_selected_error_goes_on(line, at, d) ==
    CASE d.r.tag = "Error" -> [self |-> d.self, item |-> SomeErr(d.r.err, at)]
      [] d.r.tag = "EndOfIndex" -> next(disable(d.self))
      [] d.r.tag = "Accept" -> [self |-> d.self, item |-> SomeOk(line, at)]
      [] d.r.tag = "Deny" -> next(d.self)
      [] d.r.tag = "Panic" -> [self |-> d.self, item |-> Abort(at)]

\* the arm Ok(_), on the result d of self.select(self.target_stream_linum)
next_selected(line, at, d) ==
    CASE d.r.tag = "Error" -> [self |-> disable(d.self), item |-> SomeErr(d.r.err, at)]
      [] d.r.tag = "EndOfIndex" -> next(disable(d.self))
      [] d.r.tag = "Accept" -> [self |-> d.self, item |-> SomeOk(line, at)]
      [] d.r.tag = "Deny" -> next(d.self)
      [] d.r.tag = "Panic" -> [self |-> d.self, item |-> Abort(at)]

next_eof_selected(at, d) ==
    IF d.r.tag = "Error"
    THEN [self |-> disable(d.self), item |-> SomeErr(d.r.err, at)]
    ELSE next(disable(d.self))

next_read_judges_at_eof(rd) ==
    IF rd.res = "Err"
    THEN [self |-> disable(rd.self), item |-> SomeErr(Io, rd.self.target_stream_linum)]
    ELSE IF rd.n = 0
    THEN next_eof_selected(rd.self.target_stream_linum,
                           select(rd.self, rd.self.target_stream_linum))
    ELSE next_selected(rd.line, rd.self.target_stream_linum,
                       select(rd.self, rd.self.target_stream_linum))

next_read_blank_is_eof(rd) ==
    IF rd.res = "Err"
    THEN [self |-> disable(rd.self), item |-> SomeErr(Io, rd.self.target_stream_linum)]
    ELSE IF rd.n = 0 \/ rstrip(rd.line) = <<>> THEN next(disable(rd.self))
    ELSE next_selected(rd.line, rd.self.target_stream_linum,
                       select(rd.self, rd.self.target_stream_linum))

\* the match on the target line read
next_read(rd) ==
    IF rd.res = "Err"
    THEN [self |-> disable(rd.self), item |-> SomeErr(Io, rd.self.target_stream_linum)]
    ELSE IF rd.n = 0 THEN next(disable(rd.self))
    ELSE next_selected(rd.line, rd.self.target_stream_linum,
                       select(rd.self, rd.self.target_stream_linum))

next_reads_when_halted(self) ==
    IF self.eoi THEN [self |-> read_target(self).self, item |-> None]
    ELSE next_read(read_target(self))

next(self) ==
    IF self.eoi THEN [self |-> self, item |-> None] ELSE next_read(read_target(self))

(***************************************************************************)
(* The state: the fields of one Select, what its consumer has received,    *)
(* and the inputs it was constructed from.                                 *)
(***************************************************************************)
VARIABLES
    index_type, invert_match, target_stream, target_stream_linum,
    index_stream, index_stream_linum, eoi,
    \* read_line calls made on each stream
    target_reads, index_reads,
    \* what each call of next() returned, in order
    items,
    \* a call of next() panicked: the process is gone
    aborted,
    \* calls of next() made with eoi already set
    extra_calls,
    \* the arguments of Select::new
    target0, index0, type0,
    \* the grammar and the predicate on their own: the text, range(text), and
    \* one Type::select of the parsed range
    p_input, p_result, p_probe

select_vars == <<index_type, invert_match, target_stream, target_stream_linum,
                 index_stream, index_stream_linum, eoi, target_reads, index_reads>>
run_vars == <<items, aborted, extra_calls, target0, index0, type0>>
parse_vars == <<p_input, p_result, p_probe>>
vars == <<select_vars, run_vars, parse_vars>>

Self ==
    [index_type |-> index_type,
     invert_match |-> invert_match,
     target_stream |-> target_stream,
     target_stream_linum |-> target_stream_linum,
     index_stream |-> index_stream,
     index_stream_linum |-> index_stream_linum,
     eoi |-> eoi,
     target_reads |-> target_reads,
     index_reads |-> index_reads]

SetSelf(s) ==
    /\ index_type' = s.index_type
    /\ invert_match' = s.invert_match
    /\ target_stream' = s.target_stream
    /\ target_stream_linum' = s.target_stream_linum
    /\ index_stream' = s.index_stream
    /\ index_stream_linum' = s.index_stream_linum
    /\ eoi' = s.eoi
    /\ target_reads' = s.target_reads
    /\ index_reads' = s.index_reads

(***************************************************************************)
(* The inputs.  A stream is a sequence of terminated lines; its last       *)
(* outcome may instead be an unterminated line or an IO failure (nothing   *)
(* is read after a failure).                                               *)
(***************************************************************************)
SeqsUpTo(S, n) == UNION {[1..k -> S] : k \in 0..n}

StreamsOf(Mid, Last, n) ==
    LET mid == {ReadOk(l) : l \in Mid}
    IN  SeqsUpTo(mid, n)
          \cup (IF n = 0 THEN {}
                ELSE {Append(q, x) : q \in SeqsUpTo(mid, n - 1), x \in Last})

\* "4294967296": one more than u32::MAX
TooBig == <<"4", "2", "9", "4", "9", "6", "7", "2", "9", "6">>
\* "4294967295": u32::MAX
Biggest == <<"4", "2", "9", "4", "9", "6", "7", "2", "9", "5">>

\* Target line n holds the n-th letter, so that no two lines of a target are
\* alike.  A target of each length ends every line in LF, or fails to read
\* after its lines; the longest one also comes with every line ending in
\* CR LF, and with its last line unterminated.
Letters == <<"a", "b", "c", "d", "e", "f", "g", "h">>
LfLines(k) == [n \in 1..k |-> ReadOk(<<Letters[n], LF>>)]
CrLfLines(k) == [n \in 1..k |-> ReadOk(<<Letters[n], CR, LF>>)]
Targets ==
    {LfLines(k) : k \in 0..MaxTarget}
      \cup {CrLfLines(MaxTarget)}
      \cup {Append(LfLines(k - 1), ReadFail) : k \in 1..MaxTarget}
      \cup {Append(LfLines(MaxTarget - 1), ReadOk(<<Letters[MaxTarget]>>))}

NumberLines ==
    {<<"1", LF>>, <<"3", CR, LF>>, <<"2", ",", "3", LF>>, <<",", "2", LF>>,
     <<"2", ",", LF>>, <<"3", ",", "1", LF>>, <<LF>>}
\* the last outcome may be a failing read, an unterminated line, or a line
\* that is not an expression: letters, a number followed by a letter, a
\* number above u32::MAX
NumberLast ==
    {ReadFail, ReadOk(<<"2">>), ReadOk(<<"x", LF>>), ReadOk(<<"2", "x", LF>>),
     ReadOk(TooBig \o <<LF>>)}
NumberIndexes == StreamsOf(NumberLines, NumberLast, MaxIndex)

ReLines == {<<"1", LF>>, <<LF>>, <<"a", CR, LF>>}
ReLast == {ReadFail, ReadOk(<<"a">>)}
ReIndexes == StreamsOf(ReLines, ReLast, MaxIndex)

TextChars == {"0", "1", "2", ",", "x"}
Texts ==
    SeqsUpTo(TextChars, MaxText)
      \cup {Biggest, TooBig, <<",">> \o Biggest, Biggest \o <<",">>,
            Biggest \o <<",">> \o Biggest, <<"1", ",">> \o TooBig}

ProbeLinums == {U32(n) : n \in 0..MaxProbe} \cup {U32Max}
ProbeLines == {<<>>, <<"a">>}

NotRun == [kind |-> "NotRun"]

(***************************************************************************)
(* Init: the state after Select::new.                                      *)
(***************************************************************************)
IsSelf(s) ==
    /\ index_type = s.index_type
    /\ invert_match = s.invert_match
    /\ target_stream = s.target_stream
    /\ target_stream_linum = s.target_stream_linum
    /\ index_stream = s.index_stream
    /\ index_stream_linum = s.index_stream_linum
    /\ eoi = s.eoi
    /\ target_reads = s.target_reads
    /\ index_reads = s.index_reads

\* the options of main.rs's Cli that choose the predicate: -e (index_regex)
\* and -n (index_line_number), which clap lets not be given together
NoRegex == [some |-> FALSE]
SomeRegex(re) == [some |-> TRUE, re |-> re]
CliArgs ==
    {[index_regex |-> NoRegex, index_line_number |-> n] : n \in BOOLEAN}
      \cup {[index_regex |-> SomeRegex(re), index_line_number |-> FALSE] : re \in Patterns}

new_index_type_without_default(r, index_line_number) ==
    IF index_line_number THEN NoType
    ELSE IF r.some THEN Re(r.re) ELSE NoType

\* main.rs new_index_type
new_index_type(r, index_line_number) ==
    IF index_line_number THEN NoType
    ELSE IF r.some THEN Re(r.re) ELSE Re(ReAny)

Dialects == {new_index_type(a.index_regex, a.index_line_number) : a \in CliArgs}
IndexesOf(ty) == IF ty = NoType THEN NumberIndexes ELSE ReIndexes

\* Select::new(target0, index0, type0, invert_match), nothing received yet
Constructed ==
    /\ IsSelf(New(target0, index0, type0, invert_match))
    /\ items = <<>>
    /\ aborted = FALSE
    /\ extra_calls = 0

ParseIdle ==
    /\ p_input = <<>>
    /\ p_result = NotRun
    /\ p_probe = NotRun

Init ==
    /\ target0 \in Targets
    /\ type0 \in Dialects
    /\ index0 \in IndexesOf(type0)
    /\ invert_match \in BOOLEAN
    /\ Constructed
    /\ ParseIdle

\* the call's effect on the Select and what the consumer receives
Returned(r) ==
    /\ SetSelf(r.self)
    /\ items' = Append(items, r.item)
    /\ aborted' = (r.item.tag = "Panic")

\* the consumer calls next(); it may go on calling after the end
CallNext ==
    /\ ~aborted
    /\ eoi => extra_calls < MaxExtraCalls
    /\ Returned(next(Self))
    /\ extra_calls' = IF eoi THEN extra_calls + 1 ELSE extra_calls
    /\ UNCHANGED <<target0, index0, type0, parse_vars>>

Next == CallNext

Spec == Init /\ [][Next]_vars

(***************************************************************************)
(* The grammar and the predicate on their own.                             *)
(***************************************************************************)
InitParse ==
    /\ target0 = <<>>
    /\ type0 = NoType
    /\ index0 = <<>>
    /\ invert_match = FALSE
    /\ Constructed
    /\ p_input \in Texts
    /\ p_result = NotRun
    /\ p_probe = NotRun

\* range(p_input)
ParseText ==
    /\ p_result = NotRun
    /\ p_result' = range(p_input)
    /\ UNCHANGED <<select_vars, run_vars, p_input, p_probe>>

\* Type::Number(range).select(n, line), with start() and end()
Probe ==
    /\ p_result.kind = "Ok"
    /\ p_probe = NotRun
    /\ \E n \in ProbeLinums, line \in ProbeLines :
          LET t == Number(p_result.val)
          IN  p_probe' = [kind |-> "Done", n |-> n, line |-> line,
                          selected |-> TypeSelect(t, n, line),
                          start |-> TypeStart(t), end |-> TypeEnd(t)]
    /\ UNCHANGED <<select_vars, run_vars, p_input, p_result>>

NextParse == ParseText \/ Probe

SpecParse == InitParse /\ [][NextParse]_vars

(***************************************************************************)
(* The consumer of main.rs's run: it drains the iterator and stops at the  *)
(* end or at the first failure.  Collect gives the items it receives.      *)
(***************************************************************************)
RECURSIVE Collect(_)
Collected(r) ==
    IF r.item.tag = "None" THEN <<>>
    ELSE IF r.item.tag = "Ok" THEN <<r.item>> \o Collect(r.self)
    ELSE <<r.item>>
Collect(self) == Collected(next(self))

(***************************************************************************)
(* Vocabulary of the properties.                                           *)
(***************************************************************************)
\* the line numbers of the lines a sequence of items emits
EmittedOf(its) == {its[i].at : i \in {j \in 1..Len(its) : its[j].tag = "Ok"}}
Emitted == EmittedOf(items)
NoFailure(its) == \A i \in 1..Len(its) : its[i].tag \in {"Ok", "None"}
NoIoFail(stream) == \A i \in 1..Len(stream) : stream[i].io = "Ok"

\* a line without its terminator: LF, or CR LF
StripTerminator(line) ==
    LET n == Len(line)
    IN  IF n >= 2 /\ line[n] = LF /\ line[n - 1] = CR THEN Take(line, n - 2)
        ELSE IF n >= 1 /\ line[n] = LF THEN Take(line, n - 1)
        ELSE line

\* the outcomes consumed from a stream so far, and the lines among them
Consumed(stream0, stream) == Len(stream0) - Len(stream)
Obtained(stream0, stream) ==
    Cardinality({i \in 1..Consumed(stream0, stream) : stream0[i].io = "Ok"})

\* the grammar of spec section 4.1, stated on the whole text
AllDigits(t) == \A i \in 1..Len(t) : t[i] \in Digits
Commas(t) == {i \in 1..Len(t) : t[i] = ","}
IsNaturalToken(t) == t # <<>> /\ AllDigits(t) /\ \E i \in 1..Len(t) : t[i] # "0"
IsZeroToken(t) == t # <<>> /\ \A i \in 1..Len(t) : t[i] = "0"
CommaAt(t) == CHOOSE i \in Commas(t) : TRUE
LeftOf(t) == Take(t, CommaAt(t) - 1)
RightOf(t) == Drop(t, CommaAt(t))
IsForm(t) ==
    \/ Commas(t) = {} /\ IsNaturalToken(t)
    \/ /\ Cardinality(Commas(t)) = 1
       /\ LeftOf(t) = <<>> \/ IsNaturalToken(LeftOf(t))
       /\ RightOf(t) = <<>> \/ IsNaturalToken(RightOf(t))
       /\ LeftOf(t) # <<>> \/ RightOf(t) # <<>>

\* the value of a digit run of at most nine digits
RECURSIVE IntOf(_)
IntOf(ds) == IF ds = <<>> THEN 0 ELSE IntOf(Take(ds, Len(ds) - 1)) * 10 + DigitVal(ds[Len(ds)])
IsShort(t) == Len(t) <= 9

\* the interval a text of the grammar denotes
FormStart(t) ==
    IF Commas(t) = {} THEN IntOf(t) ELSE IF LeftOf(t) = <<>> THEN 0 ELSE IntOf(LeftOf(t))
FormDenotes(t, n) ==
    /\ FormStart(t) <= n
    /\ IF Commas(t) = {} THEN n <= IntOf(t)
       ELSE RightOf(t) = <<>> \/ n <= IntOf(RightOf(t))

\* the expressions of a numeric index: its lines without terminator, blank
\* lines left out
Expressions(index) ==
    LET texts == [i \in 1..Len(index) |-> StripTerminator(index[i].line)]
    IN  SelectSeq(texts, LAMBDA t : t # <<>>)
AllForms(E) == \A i \in 1..Len(E) : IsForm(E[i]) /\ IsShort(E[i])
WellFormed(index) == NoIoFail(index) /\ AllForms(Expressions(index))
AscendingForms(E) == \A i \in 1..Len(E) - 1 : FormStart(E[i]) <= FormStart(E[i + 1])
Ascending(index) == AscendingForms(Expressions(index))
DenotedBy(E, target) ==
    {n \in 1..Len(target) : \E i \in 1..Len(E) : FormDenotes(E[i], n)}
Denoted(index, target) == DenotedBy(Expressions(index), target)

\* the Ok items are the target's lines, in increasing line order
Faithful(its) ==
    /\ \A i \in 1..Len(its) :
          its[i].tag = "Ok" =>
              /\ its[i].at \in 1..Len(target0)
              /\ target0[its[i].at] = ReadOk(its[i].line)
    /\ \A i, j \in 1..Len(its) :
          (i < j /\ its[i].tag = "Ok" /\ its[j].tag = "Ok") => its[i].at < its[j].at

(***************************************************************************)
(* C1.  Numeric dialect, not inverted, a well-formed index in ascending    *)
(* order of start: the lines emitted are target lines in target order,     *)
(* each denoted by an index expression; no failure is produced; and once   *)
(* the iterator has halted every denoted target line has been emitted.     *)
(***************************************************************************)
C1_Case ==
    /\ type0 = NoType
    /\ ~invert_match
    /\ NoIoFail(target0)
    /\ WellFormed(index0)
    /\ Ascending(index0)

\* C1: numeric dialect, not inverted, well-formed ascending index: exactly the
\* denoted target lines are emitted, in target order, with no failure.
C1_NumberSelectsDenoted ==
    C1_Case =>
        /\ ~aborted
        /\ NoFailure(items)
        /\ Faithful(items)
        /\ Emitted \subseteq Denoted(index0, target0)
        /\ eoi => Emitted = Denoted(index0, target0)

C1_Witness ==
    /\ C1_Case
    /\ eoi
    /\ Len(Expressions(index0)) >= 2
    /\ Len(index0) > Len(Expressions(index0))
    /\ Emitted = {1, 3}

(***************************************************************************)
(* C2.  Content dialect, not inverted, no IO failure: an emitted line n    *)
(* has an n-th index line that matches the pattern once its terminator is  *)
(* stripped; once the iterator has halted every such target line has been  *)
(* emitted; and the index lines read are as many as the target lines       *)
(* obtained, so the verdict on line n is made on index line n.             *)
(***************************************************************************)
C2_Case ==
    /\ type0.tag = "Re"
    /\ ~invert_match
    /\ NoIoFail(target0)
    /\ NoIoFail(index0)

IndexMatches(n) ==
    /\ n \in 1..Len(index0)
    /\ IsMatch(type0.re, StripTerminator(index0[n].line))

\* C2: content dialect, not inverted: target line n is emitted iff index line
\* n exists and, stripped of its terminator, matches; index line n decides it.
C2_ContentSelectsMatching ==
    C2_Case =>
        /\ NoFailure(items)
        /\ Faithful(items)
        /\ \A n \in Emitted : IndexMatches(n)
        /\ eoi => \A n \in 1..Len(target0) : IndexMatches(n) => n \in Emitted
        /\ index_reads = Obtained(target0, target_stream)
        /\ index_stream_linum = index_reads

C2_Witness ==
    /\ C2_Case
    /\ eoi
    /\ type0.re = ReEmpty
    /\ Len(target0) = 3
    /\ Len(index0) = 3
    /\ Emitted = {2}

(***************************************************************************)
(* C3.  When neither the run made nor the run over the same inputs with    *)
(* the invert flag flipped produces a failure, the lines the two runs emit *)
(* partition the target's lines; where the run not inverted halted at the  *)
(* end of the index, the inverted run emits every line from there on.      *)
(***************************************************************************)
Flipped == Collect(New(target0, index0, type0, ~invert_match))

C3_Case ==
    /\ eoi
    /\ ~aborted
    /\ NoFailure(items)
    /\ NoFailure(Flipped)

\* mine and theirs are the line numbers the run made and the flipped run emit
C3_Partition(mine, theirs) ==
    /\ mine \cup theirs = 1..Len(target0)
    /\ mine \cap theirs = {}
    /\ (~invert_match /\ target_stream_linum <= Len(target0)) =>
          \A n \in target_stream_linum..Len(target0) :
              n \in theirs /\ n \notin mine

C3_Against(flipped) ==
    NoFailure(flipped) => C3_Partition(Emitted, EmittedOf(flipped))

\* C3: absent failures the inverted and the not inverted run partition the
\* target's lines; past the end of the index every line is the inverted run's.
C3_InvertPartitions ==
    (eoi /\ ~aborted /\ NoFailure(items)) => C3_Against(Flipped)

C3_Witness ==
    /\ C3_Case
    /\ ~invert_match
    /\ Len(target0) = 3
    /\ target_stream_linum = 2
    /\ Emitted = {1}
    /\ EmittedOf(Flipped) = {2, 3}

(***************************************************************************)
(* C4.  Once eoi is set it stays set, and a call of next() made with eoi   *)
(* set returns None and leaves both streams, their counters and the        *)
(* predicate as they were.                                                 *)
(***************************************************************************)
\* C4: eoi, once set, is never cleared; next() then returns None and reads
\* nothing from either stream.
C4_HaltedIsSticky ==
    [][eoi => /\ eoi'
              /\ items' = Append(items, None)
              /\ UNCHANGED select_vars]_vars

C4_Witness ==
    /\ eoi
    /\ extra_calls >= 2
    /\ Len(items) >= 3
    /\ items[Len(items)] = None
    /\ items[Len(items) - 1] = None
    /\ target_stream # <<>>

(***************************************************************************)
(* C5.  A failure item is the last item: the iterator is halted, only Ok   *)
(* items precede it, only None follows it, and the target line it arose at *)
(* is not emitted.                                                         *)
(***************************************************************************)
\* C5: a failure is the last item: at most one, the line under judgment is
\* not emitted, and every later request yields no item.
C5_FailureIsLast ==
    \A i \in 1..Len(items) :
        items[i].tag = "Err" =>
            /\ eoi
            /\ \A j \in 1..Len(items) : j < i => items[j].tag = "Ok"
            /\ \A j \in 1..Len(items) : j > i => items[j] = None
            /\ items[i].at \notin Emitted

C5_Witness ==
    /\ Len(items) >= 3
    /\ items[1].tag = "Ok"
    /\ items[2].tag = "Err"
    /\ items[2].err.kind = "Parse"
    /\ items[3] = None
    /\ target_stream # <<>>

(***************************************************************************)
(* C6.  Numeric dialect: every index line read that is not blank and is    *)
(* not, as a whole, one of the four forms halts the iterator with a Parse  *)
(* failure naming that line, and nothing is read from the index after it.  *)
(***************************************************************************)
ParseFailureAt(i) ==
    /\ eoi
    /\ Consumed(index0, index_stream) = i
    /\ \E k \in 1..Len(items) :
          /\ items[k].tag = "Err"
          /\ items[k].err.kind = "Parse"
          /\ items[k].err.index = i
          /\ items[k].err.line = StripTerminator(index0[i].line)

\* C6: numeric dialect: a non-blank index line read that is not wholly one of
\* the four forms halts the iterator with a Parse failure and loads no range.
C6_MalformedLineIsParseFailure ==
    type0 = NoType =>
        \A i \in 1..Consumed(index0, index_stream) :
            (/\ index0[i].io = "Ok"
             /\ StripTerminator(index0[i].line) # <<>>
             /\ ~IsForm(StripTerminator(index0[i].line))) => ParseFailureAt(i)

(***************************************************************************)
(* C7.  An index expression in which a number token has the value 0, in    *)
(* any position, does not parse: range never returns a Range for it.       *)
(***************************************************************************)
IsExpressionShape(t) ==
    /\ t # <<>>
    /\ \A i \in 1..Len(t) : t[i] \in Digits \cup {","}
    /\ Cardinality(Commas(t)) <= 1
    /\ t # <<",">>
HasZeroToken(t) ==
    IF Commas(t) = {} THEN IsZeroToken(t)
    ELSE IsZeroToken(LeftOf(t)) \/ IsZeroToken(RightOf(t))

\* C7: an expression with a number token of value 0, in any position, fails
\* parsing and never yields a Range.
C7_ZeroNeverParses ==
    (p_result # NotRun /\ IsExpressionShape(p_input) /\ HasZeroToken(p_input)) =>
        p_result.kind # "Ok"

(***************************************************************************)
(* C8.  range on a text that is one of the four forms, its numbers in      *)
(* 1..2^32-1: "a" gives Single(a); "a,b" gives Interval(a, b), also when   *)
(* a > b; ",b" gives Interval(0, b); "a," gives Interval(a, 2^32-1); all   *)
(* of the text is consumed.                                                *)
(***************************************************************************)
TwoTo32Minus1 == [hi |-> 65535, lo |-> 65535]
FormRange(t) ==
    IF Commas(t) = {} THEN Single(U32(IntOf(t)))
    ELSE Interval(IF LeftOf(t) = <<>> THEN U32(0) ELSE U32(IntOf(LeftOf(t))),
                  IF RightOf(t) = <<>> THEN TwoTo32Minus1 ELSE U32(IntOf(RightOf(t))))

\* C8: range maps "a", "a,b", ",b" and "a," to Single(a), Interval(a, b),
\* Interval(0, b) and Interval(a, 2^32-1), with no ordering check.
C8_RangeParsesTheForms ==
    p_result # NotRun =>
        /\ (IsForm(p_input) /\ IsShort(p_input)) =>
              p_result = NomOk(<<>>, FormRange(p_input))
        /\ p_input = Biggest => p_result = NomOk(<<>>, Single(TwoTo32Minus1))
        /\ p_input = <<",">> \o Biggest =>
              p_result = NomOk(<<>>, Interval(U32(0), TwoTo32Minus1))
        /\ p_input = Biggest \o <<",">> =>
              p_result = NomOk(<<>>, Interval(TwoTo32Minus1, TwoTo32Minus1))
        /\ p_input = Biggest \o <<",">> \o Biggest =>
              p_result = NomOk(<<>>, Interval(TwoTo32Minus1, TwoTo32Minus1))

C8_Witness ==
    /\ p_input = <<"2", ",", "1">>
    /\ p_result = NomOk(<<>>, Interval(U32(2), U32(1)))

(***************************************************************************)
(* C9.  Type::Number(Single(k)).select(n, c) is n = k;                     *)
(* Type::Number(Interval(s, e)).select(n, c) is s <= n and n <= e, false   *)
(* for every n when s > e; both are start() <= n and n <= end(); the       *)
(* content c has no effect; and for a text of the grammar the verdict is   *)
(* whether the text denotes line n.                                        *)
(***************************************************************************)
\* C9: a numeric predicate selects line n iff start() <= n <= end(), whatever
\* the content; an interval with s > e selects nothing.
C9_NumberSelectsByBounds ==
    p_probe # NotRun =>
        LET r == p_result.val
            n == p_probe.n
        IN  /\ r.tag = "Single" => p_probe.selected = (n = r.n)
            /\ r.tag = "Interval" =>
                  /\ p_probe.selected = (U32Le(r.s, n) /\ U32Le(n, r.e))
                  /\ U32Lt(r.e, r.s) => ~p_probe.selected
            /\ p_probe.selected = (U32Le(p_probe.start, n) /\ U32Le(n, p_probe.end))
            /\ \A c \in ProbeLines : TypeSelect(Number(r), n, c) = p_probe.selected
            /\ (IsForm(p_input) /\ IsShort(p_input) /\ n.hi = 0) =>
                  p_probe.selected = FormDenotes(p_input, n.lo)

C9_Witness ==
    /\ p_probe # NotRun
    /\ p_input = <<"2", ",", "1">>
    /\ p_probe.n = U32(2)
    /\ p_probe.line = <<"a">>
    /\ ~p_probe.selected

(***************************************************************************)
(* C10.  Content dialect: the index lines read so far, by attempts, by the *)
(* counter and by lines consumed, are at most the target lines obtained so *)
(* far; no index line beyond the target's length is read.                  *)
(***************************************************************************)
\* C10: content dialect: the index lines read never outnumber the target
\* lines obtained, so no index line past the target's length is read.
C10_IndexNeverAheadOfTarget ==
    type0.tag = "Re" =>
        /\ index_reads <= Obtained(target0, target_stream)
        /\ index_stream_linum <= Obtained(target0, target_stream)
        /\ Consumed(index0, index_stream) <= Obtained(target0, target_stream)
        /\ Consumed(index0, index_stream) <= Len(target0)

C10_Witness ==
    /\ type0.tag = "Re"
    /\ eoi
    /\ target_stream = <<>>
    /\ Obtained(target0, target_stream) = 2
    /\ Len(index0) = 3
    /\ Len(index_stream) = 1
    /\ index_reads = 2

(***************************************************************************)
(* C11.  The call of next() that reads the end of the target stream sets   *)
(* eoi and returns None, never a failure; when the call starts at the end  *)
(* of the target it reads nothing from the index stream and leaves the     *)
(* loaded predicate alone, whatever the index still holds.                 *)
(***************************************************************************)
\* a read_line on the target past its last outcome has been made
EndOfTargetRead == target_reads > Len(target0)

\* C11: the end of the target stream ends the sequence silently in both
\* dialects, whatever remains unread in the index stream.
C11_EndOfTargetIsSilent ==
    [][(~EndOfTargetRead /\ EndOfTargetRead') =>
          /\ eoi'
          /\ ~aborted'
          /\ items' = Append(items, None)
          /\ target_stream = <<>> =>
                UNCHANGED <<index_stream, index_stream_linum, index_reads, index_type>>]_vars

\* the target ended with an unparsable line and a range beyond the target's
\* length still unread in the index
C11_Witness ==
    /\ type0 = NoType
    /\ EndOfTargetRead
    /\ eoi
    /\ Emitted = {1}
    /\ items = <<SomeOk(<<"a", LF>>, 1), None>>
    /\ index0 = <<ReadOk(<<"1", LF>>), ReadOk(<<"3", CR, LF>>), ReadOk(<<"x", LF>>)>>
    /\ index_stream = Tail(index0)

(***************************************************************************)
(* C12.  Numeric dialect: the run made and the run over the same target    *)
(* with the blank lines taken out of the index emit the same lines in the  *)
(* same order and end the same way (a Parse failure names the same target  *)
(* line and text; only its index line number differs).                     *)
(***************************************************************************)
IsBlank(x) == x.io = "Ok" /\ rstrip(x.line) = <<>>
Unblanked(index) == SelectSeq(index, LAMBDA x : ~IsBlank(x))
OkItems(its) == SelectSeq(its, LAMBDA it : it.tag = "Ok")

\* how a run ended: silently, or with the failure it produced
EndOf(it) ==
    IF it.tag = "Panic" THEN [end |-> "Panic", at |-> it.at]
    ELSE IF it.err.kind = "Io" THEN [end |-> "Io", at |-> it.at]
    ELSE [end |-> "Parse", at |-> it.at, line |-> it.err.line]
Outcome(its) ==
    LET bad == {i \in 1..Len(its) : its[i].tag \in {"Err", "Panic"}}
    IN  IF bad = {} THEN [end |-> "Silent"] ELSE EndOf(its[CHOOSE i \in bad : TRUE])

SameRun(mine, theirs) ==
    /\ OkItems(mine) = OkItems(theirs)
    /\ Outcome(mine) = Outcome(theirs)

C12_Case ==
    /\ type0 = NoType
    /\ eoi \/ aborted
    /\ \E i \in 1..Len(index0) : IsBlank(index0[i])

\* C12: numeric dialect: blank index lines carry no information; with them
\* removed the same target lines are emitted, none is skipped.
C12_BlankLinesCarryNothing ==
    C12_Case =>
        SameRun(items, Collect(New(target0, Unblanked(index0), type0, invert_match)))

\* a blank line is read while line 2 is under judgment, and line 2 is emitted
C12_Witness ==
    /\ C12_Case
    /\ ~invert_match
    /\ index0 = <<ReadOk(<<"1", LF>>), ReadOk(<<LF>>), ReadOk(<<"2">>)>>
    /\ Len(target0) = 3
    /\ Emitted = {1, 2}

(***************************************************************************)
(* C13.  Numeric dialect, a well-formed index in non-decreasing order of   *)
(* start: a line "s,e" with s > e produces no Parse failure, and the run   *)
(* made and the run over the index without that line emit the same lines   *)
(* in the same order.  (The runs may end differently: without the line the *)
(* index may end, and the run halt, before a failing read of the target.)  *)
(* Init draws the invert flag from both values.                            *)
(***************************************************************************)
IsEmptyInterval(t) ==
    /\ IsForm(t)
    /\ Cardinality(Commas(t)) = 1
    /\ LeftOf(t) # <<>>
    /\ RightOf(t) # <<>>
    /\ IntOf(LeftOf(t)) > IntOf(RightOf(t))
EmptyIntervalLines(index) ==
    {i \in 1..Len(index) :
        index[i].io = "Ok" /\ IsEmptyInterval(StripTerminator(index[i].line))}
RemoveAt(q, i) == SubSeq(q, 1, i - 1) \o SubSeq(q, i + 1, Len(q))

C13_Case ==
    /\ type0 = NoType
    /\ eoi \/ aborted
    /\ WellFormed(index0)
    /\ Ascending(index0)
    /\ EmptyIntervalLines(index0) # {}

\* C13: numeric dialect: an expression "s,e" with s > e is no parse error and
\* a no-op: removing it from an ascending index changes no emitted line.
C13_EmptyIntervalIsNoOp ==
    C13_Case =>
        /\ ~aborted
        /\ \A k \in 1..Len(items) : items[k].tag = "Err" => items[k].err.kind = "Io"
        /\ \A i \in EmptyIntervalLines(index0) :
              OkItems(items) =
                  OkItems(Collect(New(target0, RemoveAt(index0, i), type0, invert_match)))

\* "3,1" was loaded while line 2 was under judgment, between "1" and "3"
C13_Witness ==
    /\ C13_Case
    /\ ~invert_match
    /\ index0 = <<ReadOk(<<"1", LF>>), ReadOk(<<"3", ",", "1", LF>>), ReadOk(<<"3", CR, LF>>)>>
    /\ Len(target0) = 3
    /\ Emitted = {1, 3}

(***************************************************************************)
(* C14.  With neither -e nor -n the engine is constructed with the content *)
(* predicate ".+": not inverted and with no IO failure, an emitted line n  *)
(* has an n-th index line that is not empty once its terminator is         *)
(* stripped, and once the iterator has halted every such target line has   *)
(* been emitted.                                                           *)
(***************************************************************************)
C14_Case ==
    /\ type0 = new_index_type(NoRegex, FALSE)
    /\ ~invert_match
    /\ NoIoFail(target0)
    /\ NoIoFail(index0)

IndexNonEmpty(n) ==
    /\ n \in 1..Len(index0)
    /\ StripTerminator(index0[n].line) # <<>>

\* C14: no pattern and no numeric dialect: the content dialect runs, and line
\* n is emitted iff index line n exists and is non-empty without terminator.
C14_DefaultMatchesNonEmpty ==
    C14_Case =>
        /\ index_type.tag = "Re"
        /\ NoFailure(items)
        /\ Faithful(items)
        /\ \A n \in Emitted : IndexNonEmpty(n)
        /\ eoi => \A n \in 1..Len(target0) : IndexNonEmpty(n) => n \in Emitted

\* the inputs of e2e_re_default, cut to three lines
C14_Witness ==
    /\ C14_Case
    /\ eoi
    /\ index0 = <<ReadOk(<<"1", LF>>), ReadOk(<<LF>>), ReadOk(<<"a", CR, LF>>)>>
    /\ Len(target0) = 3
    /\ Emitted = {1, 3}

(***************************************************************************)
(* C16.  Numeric dialect, a well-formed index in any order.  The           *)
(* expression that judges target line n is the first one, in the order of  *)
(* the index, whose upper bound is at least n.  Of the target lines        *)
(* obtained so far: not inverted, line n is emitted iff that expression    *)
(* exists and its lower bound is at most n, and the iterator has halted on *)
(* line n when there is none; inverted, line n is emitted iff there is     *)
(* none or its lower bound is above n.  No Parse failure is produced.      *)
(***************************************************************************)
UpperAtLeast(t, n) ==
    IF Commas(t) = {} THEN n <= IntOf(t)
    ELSE RightOf(t) = <<>> \/ n <= IntOf(RightOf(t))
LowerAtMost(t, n) == FormStart(t) <= n

\* the expressions of E, by position, that have not been passed at line n
InPlay(E, n) == {i \in 1..Len(E) : UpperAtLeast(E[i], n)}
First(K) == CHOOSE i \in K : \A j \in K : i <= j
\* the verdict on line n: "none" when every expression has been passed
JudgeAmong(E, K, n) ==
    IF K = {} THEN "none"
    ELSE IF LowerAtMost(E[First(K)], n) THEN "in" ELSE "out"
Judge(E, n) == JudgeAmong(E, InPlay(E, n), n)

C16_Case ==
    /\ type0 = NoType
    /\ WellFormed(index0)

\* line n has had the verdict j
C16_JudgedAs(n, j) ==
    /\ n \in Emitted <=> IF invert_match THEN j # "in" ELSE j = "in"
    /\ (~invert_match /\ j = "none") => eoi /\ target_stream_linum = n

C16_Judged(E) ==
    \A n \in 1..Obtained(target0, target_stream) : C16_JudgedAs(n, Judge(E, n))

\* C16: numeric dialect, well-formed index in any order: line n is judged by
\* the first expression with upper bound >= n; with none left the run halts at
\* n when not inverted and accepts n when inverted.
C16_FirstUnpassedExpressionJudges ==
    C16_Case =>
        /\ ~aborted
        /\ \A k \in 1..Len(items) : items[k].tag = "Err" => items[k].err.kind = "Io"
        /\ Faithful(items)
        /\ C16_Judged(Expressions(index0))

\* an index out of order: "3,1" judges line 1 and denies it, "1" is passed
\* unused at line 2, the overlapping "2,3" judges lines 2 and 3
C16_Witness ==
    /\ C16_Case
    /\ ~invert_match
    /\ ~Ascending(index0)
    /\ index0 = <<ReadOk(<<"3", ",", "1", LF>>), ReadOk(<<"1", LF>>),
                  ReadOk(<<"2", ",", "3", LF>>)>>
    /\ Emitted = {2, 3}
    /\ index_stream = <<>>

(***************************************************************************)
(* C17.  Numeric dialect, a predicate loaded.  select on a line number n   *)
(* with end() >= n returns the verdict of the predicate and leaves the     *)
(* Select as it was.  A call of next() whose target lines all have numbers *)
(* up to end() leaves the index stream, its counter and the predicate      *)
(* unchanged; a call that reads an index line or changes the predicate     *)
(* reached a target line number above end().                               *)
(***************************************************************************)
IndexSide == <<index_stream, index_stream_linum, index_reads, index_type>>

\* select(n) on the loaded predicate, for the line numbers it has not passed
C17_JudgingReadsNothing ==
    \A n \in 1..(MaxTarget + 1) :
        U32Le(U32(n), TypeEnd(index_type)) =>
            select(Self, n) =
                [self |-> Self, r |-> verdict(Self, TypeSelect(index_type, U32(n), <<>>))]

\* C17: numeric dialect: index lines are read only with no predicate loaded,
\* a predicate is cleared only when end() < n, and judging line n against a
\* predicate with end() >= n leaves index cursor, counter and predicate alone.
C17_IndexReadOnlyWhenUnloaded ==
    [][(index_type.tag = "Number" /\ ~eoi) =>
          /\ C17_JudgingReadsNothing
          /\ U32Le(U32(target_stream_linum'), TypeEnd(index_type)) => UNCHANGED IndexSide
          /\ index_type' # index_type =>
                U32Lt(TypeEnd(index_type), U32(target_stream_linum'))
          /\ index_reads' # index_reads =>
                U32Lt(TypeEnd(index_type), U32(target_stream_linum'))]_vars

\* "2,3" was loaded at line 1 and has judged lines 1, 2 and 3 with one index
\* read made and an index line still unread
C17_Witness ==
    /\ type0 = NoType
    /\ ~invert_match
    /\ index_type = Number(Interval(U32(2), U32(3)))
    /\ target_stream_linum = 3
    /\ Emitted = {2, 3}
    /\ index_reads = 1
    /\ index_stream_linum = 1
    /\ Len(index_stream) = 1

(***************************************************************************)
(* C18.  With the invert flag set, in both dialects: select on the next    *)
(* target line number never returns EndOfIndex, and returns Accept when it *)
(* reads the end of the index; the iterator has halted only after reading  *)
(* the end of the target or with a failure as its last item; so a halted   *)
(* run without failure has obtained and judged every target line.          *)
(***************************************************************************)
\* select on line n reads the index stream before it judges
ReadsIndex(n) ==
    \/ index_type.tag \in {"Re", "None"}
    \/ U32Lt(TypeEnd(index_type), U32(n))

C18_Selected(n, d) ==
    /\ d.r.tag # "EndOfIndex"
    /\ (index_stream = <<>> /\ ReadsIndex(n)) => d.r = Accept

HaltedOnFailure ==
    \E i \in 1..Len(items) :
        /\ items[i].tag = "Err"
        /\ \A j \in (i + 1)..Len(items) : items[j] = None

\* C18: inverted, select never yields EndOfIndex (the end of the index gives
\* Accept); the run halts only on end of target or a failure.
C18_InvertedNeverEndOfIndex ==
    invert_match =>
        /\ ~eoi => C18_Selected(target_stream_linum + 1,
                                select(Self, target_stream_linum + 1))
        /\ eoi => EndOfTargetRead \/ HaltedOnFailure
        /\ (eoi /\ NoFailure(items)) =>
              /\ target_stream = <<>>
              /\ Obtained(target0, target_stream) = Len(target0)

\* the index ended after one line; lines 2 and 3 were accepted past its end
C18_Witness ==
    /\ invert_match
    /\ type0.tag = "Re"
    /\ eoi
    /\ NoFailure(items)
    /\ Len(index0) = 1
    /\ Len(target0) = 3
    /\ Emitted = {2, 3}

(***************************************************************************)
(* C19.  Without the invert flag, once a read_line on the index past its   *)
(* last outcome has been made: that read was the only such one; the        *)
(* iterator is halted and its call returned None; the target line it was   *)
(* made for was obtained and is not emitted (in the content dialect it is  *)
(* the line after the index's length); no failure was produced; and every  *)
(* later call reads no target line and emits nothing.                      *)
(***************************************************************************)
\* a read_line on the index past its last outcome has been made
EndOfIndexRead == index_reads > Len(index0)

C19_Halted ==
    /\ eoi
    /\ ~aborted
    /\ items # <<>>
    /\ items[Len(items)] = None
    /\ NoFailure(items)
    /\ index_reads = Len(index0) + 1
    /\ target_stream_linum \in 1..Len(target0)
    /\ target0[target_stream_linum].io = "Ok"
    /\ target_stream_linum \notin Emitted
    /\ target_stream = Drop(target0, target_stream_linum)
    /\ type0.tag = "Re" => target_stream_linum = Len(index0) + 1

\* C19: not inverted, the inner decision reaches the end of the index: the
\* engine halts, the line just read is not emitted, no further target line is
\* read and no further item is produced.
C19_EndOfIndexHalts ==
    [][(~invert_match /\ EndOfIndexRead') =>
          /\ C19_Halted'
          /\ EndOfIndexRead =>
                /\ UNCHANGED <<target_stream, target_stream_linum, target_reads>>
                /\ items' = Append(items, None)]_vars

\* select_lines_re_smaller_index: one index line, three target lines
C19_Witness ==
    /\ ~invert_match
    /\ type0 = Re(ReAny)
    /\ EndOfIndexRead
    /\ Len(index0) = 1
    /\ Len(target0) = 3
    /\ Len(target_stream) = 1
    /\ items = <<SomeOk(<<"a", LF>>, 1), None, None>>

(***************************************************************************)
(* C20.  Content dialect: in every reachable state the current predicate   *)
(* is the one given to Select::new, and its end() is below no line number, *)
(* so the range-exhaustion comparison end() < n is false for every n.      *)
(***************************************************************************)
\* C20: content dialect: the content predicate supplied at construction stays
\* the current predicate; range exhaustion never clears or replaces it.
C20_ContentPredicateStays ==
    type0.tag = "Re" =>
        /\ index_type = type0
        /\ TypeStart(index_type) = U32Min
        /\ TypeEnd(index_type) = U32Max
        /\ \A n \in ProbeLinums \cup {U32(target_stream_linum + 1)} :
              ~U32Lt(TypeEnd(index_type), n)

\* three target lines have been judged by the pattern "a"
C20_Witness ==
    /\ type0 = Re(ReA)
    /\ index_type = Re(ReA)
    /\ eoi
    /\ target_stream_linum = 4
    /\ index_reads = 3
    /\ Emitted = {3}

(***************************************************************************)
(* C21.  The target line counter is the number of reads made on the        *)
(* target, so a line is judged under its own number.  When a target line   *)
(* is at hand and select gives it a verdict, the verdict is that of the    *)
(* predicate in place after select's reads of the index: in the numeric    *)
(* dialect a loaded range that line n has not passed (or, inverted, the    *)
(* end of the index); in the content dialect the one index line read for   *)
(* it.  On Accept next() returns that line, as read; on Deny it returns no *)
(* item for that line.  The Ok items are target lines, terminator          *)
(* included, in strictly increasing line order.                            *)
(***************************************************************************)
\* a target line is at hand for the next call of next()
LineAtHand == ~eoi /\ ~aborted /\ target_stream # <<>> /\ Head(target_stream).io = "Ok"

AtEndOfIndex(d) == invert_match /\ d.self.index_stream = <<>> /\ d.r = Accept

C21_ByRange(n, d) ==
    \/ AtEndOfIndex(d) /\ d.self.index_type = NoType
    \/ /\ d.self.index_type.tag = "Number"
       /\ U32Le(U32(n), TypeEnd(d.self.index_type))
       /\ d.r = verdict(Self, TypeSelect(d.self.index_type, U32(n), <<>>))

C21_ByIndexLine(d) ==
    /\ d.self.index_reads = index_reads + 1
    /\ \/ AtEndOfIndex(d) /\ index_stream = <<>>
       \/ /\ index_stream # <<>>
          /\ d.r = verdict(Self, IsMatch(type0.re, rstrip(Head(index_stream).line)))

\* d is select's result for the line at hand, number n; r is next()'s
C21_Verdict(n, d, r) ==
    /\ d.r.tag \in {"Accept", "Deny"} =>
          IF type0.tag = "Re" THEN C21_ByIndexLine(d) ELSE C21_ByRange(n, d)
    /\ d.r = Accept => r = [self |-> d.self, item |-> SomeOk(Head(target_stream).line, n)]
    /\ (d.r = Deny /\ r.item.tag = "Ok") => r.item.at > n

C21_AtHand(rd) ==
    C21_Verdict(rd.self.target_stream_linum,
                select(rd.self, rd.self.target_stream_linum), next(Self))

\* C21: no target line is skipped: each line obtained is judged once, after
\* the index bookkeeping for its number; the emitted lines are a subsequence
\* of the target in increasing order, each identical to the line read.
C21_NoTargetLineSkipped ==
    /\ target_reads = target_stream_linum
    /\ Consumed(target0, target_stream) \in {target_reads, Len(target0)}
    /\ Faithful(items)
    /\ Emitted \subseteq 1..Obtained(target0, target_stream)
    /\ LineAtHand => C21_AtHand(read_target(Self))

\* line 2 was judged after "1" was passed, a blank line skipped and "2,3"
\* loaded; both lines came out as read, CR LF included
C21_Witness ==
    /\ type0 = NoType
    /\ ~invert_match
    /\ index0 = <<ReadOk(<<"1", LF>>), ReadOk(<<LF>>), ReadOk(<<"2", ",", "3", LF>>)>>
    /\ items = <<SomeOk(<<"a", CR, LF>>, 1), SomeOk(<<"b", CR, LF>>, 2)>>
    /\ index_reads = 3
    /\ target_stream_linum = 2

(***************************************************************************)
(* C22.  The run made and the run over a target of the same length whose   *)
(* lines are all blank, with the same index, dialect and invert flag, emit *)
(* at the same line numbers, in the same order, and end the same way.      *)
(***************************************************************************)
\* the target with every line replaced by a blank line; a failing read stays
Blanked(target) ==
    [n \in 1..Len(target) |-> IF target[n].io = "Ok" THEN ReadOk(<<LF>>) ELSE target[n]]
AtOf(oks) == [k \in 1..Len(oks) |-> oks[k].at]
LineNumbers(its) == AtOf(OkItems(its))

SameSelection(mine, theirs) ==
    /\ LineNumbers(mine) = LineNumbers(theirs)
    /\ Outcome(mine) = Outcome(theirs)

\* C22: the selected line numbers and the outcome do not depend on the
\* target's content, only on its number of lines.
C22_ContentOfTargetIgnored ==
    (eoi \/ aborted) =>
        SameSelection(items, Collect(New(Blanked(target0), index0, type0, invert_match)))

\* lines "a" and "c" came out where the blank target gives lines 1 and 3
C22_Witness ==
    /\ eoi
    /\ type0.tag = "Re"
    /\ invert_match
    /\ Len(target0) = 3
    /\ LineNumbers(items) = <<1, 3>>
    /\ OkItems(Collect(New(Blanked(target0), index0, type0, invert_match)))
          = <<SomeOk(<<LF>>, 1), SomeOk(<<LF>>, 3)>>

(***************************************************************************)
(* C23.  The index line counter is the number of read_line calls made on   *)
(* the index.  A Parse failure names the target line under judgment (the   *)
(* last one obtained), the position in the index stream of the line that   *)
(* failed to parse (the last one consumed, blank lines counted) and that   *)
(* line's text without its terminator, on which range fails.               *)
(***************************************************************************)
C23_Carries(it) ==
    /\ it.err.target = it.at
    /\ it.err.target = target_stream_linum
    /\ it.err.target = Obtained(target0, target_stream)
    /\ it.err.index = index_stream_linum
    /\ it.err.index = Consumed(index0, index_stream)
    /\ it.err.index \in 1..Len(index0)
    /\ index0[it.err.index].io = "Ok"
    /\ it.err.line = StripTerminator(index0[it.err.index].line)
    /\ it.err.line # <<>>
    /\ range(it.err.line) = NomErr

\* C23: a Parse failure carries the target line number under judgment, the
\* 1-based index line number (every line read counted) and the trimmed text;
\* the index line counter equals the index read attempts made.
C23_ParseFailureCarriesPosition ==
    /\ index_stream_linum = index_reads
    /\ \A k \in 1..Len(items) :
          (items[k].tag = "Err" /\ items[k].err.kind = "Parse") => C23_Carries(items[k])

\* a blank line, then "1", then "x": line 2 fails on index line 3
C23_Witness ==
    /\ type0 = NoType
    /\ index0 = <<ReadOk(<<LF>>), ReadOk(<<"1", LF>>), ReadOk(<<"x", LF>>)>>
    /\ Len(items) = 2
    /\ items[2] = SomeErr(Parse(2, 3, <<"x">>), 2)
    /\ index_reads = 3

(***************************************************************************)
(* C24.  The bounds of a loaded Range are u32 values; a numeric index line *)
(* read that holds a digit run of value above 2^32 - 1 gives a Parse       *)
(* failure item naming it; and no call of next() panics.                   *)
(***************************************************************************)
ValidU32(v) == v.hi \in 0..(Limb - 1) /\ v.lo \in 0..(Limb - 1)
ValidRange(r) ==
    IF r.tag = "Single" THEN ValidU32(r.n) ELSE ValidU32(r.s) /\ ValidU32(r.e)

\* the digit run of t that starts at position i
RunAt(t, i) == Take(Drop(t, i - 1), DigitRun(Drop(t, i - 1)))
HasOverflowingRun(t) ==
    \E i \in 1..Len(t) :
        /\ t[i] \in Digits
        /\ i = 1 \/ t[i - 1] \notin Digits
        /\ ParseU32(RunAt(t, i)) = Overflow

\* C24: every Range produced has valid u32 bounds, an index line with a digit
\* run above 2^32-1 is a Parse failure item, and parsing never aborts the run.
C24_OverflowIsParseFailure ==
    /\ index_type.tag = "Number" => ValidRange(index_type.r)
    /\ ~aborted
    /\ \A k \in 1..Len(items) : items[k].tag # "Panic"
    /\ type0 = NoType =>
          \A i \in 1..Consumed(index0, index_stream) :
              (/\ index0[i].io = "Ok"
               /\ HasOverflowingRun(StripTerminator(index0[i].line))) => ParseFailureAt(i)

(***************************************************************************)
(* C25.  Every call of next() returns; the reads it makes are bounded: at  *)
(* most |target| + 1 reads are made on the target and at most one read of  *)
(* the index per index line plus one per target line obtained; and once    *)
(* |target| + 1 reads of the target have been made the iterator is halted. *)
(***************************************************************************)
C25_ReadsBounded ==
    /\ target_reads <= Len(target0) + 1
    /\ index_reads <= Len(index0) + Obtained(target0, target_stream)
    /\ Consumed(index0, index_stream) <= index_reads
    /\ (EndOfTargetRead /\ ~aborted) => eoi

\* C25: for finite streams every call of next() returns after finitely many
\* reads, and the halted state is reached within |target| + 1 target reads.
C25_NextTerminates ==
    /\ ~aborted
    /\ C25_ReadsBounded

====
